---- MODULE Spec2Model ----
(***************************************************************************)
(* The employee analytics dashboard of src/analysis.py as a state machine. *)
(* The script is re-executed from top to bottom on every user interaction  *)
(* (one "pass"); st.session_state, the st.cache_data cache and the state   *)
(* of the un-keyed correlation multiselect survive between passes, every   *)
(* other name of the script is rebuilt by the pass.                        *)
(*                                                                         *)
(* Lists that the script only tests for membership (the selected           *)
(* departments and cities, the selected correlation features) are sets;    *)
(* data frames are sequences of rows; a float that is a quotient is kept   *)
(* as the exact pair numerator/denominator.                                *)
(***************************************************************************)
EXTENDS Integers, Sequences, FiniteSets

VARIABLES file, cache, session_state, widget_state, run

vars == <<file, cache, session_state, widget_state, run>>

(***************************************************************************)
(* Bounds and input data.                                                  *)
(***************************************************************************)
\* A table has between 1 and MaxRows rows.
MaxRows == 2

\* The columns of mock_imved_tech_data.csv that the script reads, in file order.
ColumnOrder ==
  <<"EmployeeID", "Department", "JobRole", "City", "Gender",
    "YearsOfExperience", "SalaryINR", "Attrition">>

Columns == {ColumnOrder[i] : i \in DOMAIN ColumnOrder}

\* The rows the input tables are built from (SalaryINR in thousands).
SampleRows ==
  << [EmployeeID |-> 1, Department |-> "Technology", JobRole |-> "Developer",
      City |-> "Pune", Gender |-> "Male", YearsOfExperience |-> 0,
      SalaryINR |-> 30, Attrition |-> "No"],
     [EmployeeID |-> 2, Department |-> "Technology", JobRole |-> "Tester",
      City |-> "Delhi", Gender |-> "Female", YearsOfExperience |-> 2,
      SalaryINR |-> 50, Attrition |-> "Yes"],
     [EmployeeID |-> 3, Department |-> "Sales", JobRole |-> "Executive",
      City |-> "Pune", Gender |-> "Female", YearsOfExperience |-> 1,
      SalaryINR |-> 40, Attrition |-> "Yes"],
     [EmployeeID |-> 4, Department |-> "Sales", JobRole |-> "Executive",
      City |-> "Delhi", Gender |-> "Male", YearsOfExperience |-> 2,
      SalaryINR |-> 40, Attrition |-> "No"],
     [EmployeeID |-> 5, Department |-> "Technology", JobRole |-> "Developer",
      City |-> "Pune", Gender |-> "Female", YearsOfExperience |-> 1,
      SalaryINR |-> 60, Attrition |-> "No"] >>

RECURSIVE RowsAt(_)
\* The sample rows at the indices idx, in file order.
RowsAt(idx) ==
  IF idx = {} THEN <<>>
  ELSE LET m == CHOOSE i \in idx : \A j \in idx : i >= j
       IN Append(RowsAt(idx \ {m}), SampleRows[m])

\* The well-formed, non-empty input tables.
Tables ==
  {RowsAt(idx) : idx \in {s \in SUBSET DOMAIN SampleRows :
                            Cardinality(s) >= 1 /\ Cardinality(s) <= MaxRows}}

\* The file is present and has every column.
GoodFiles == {[exists |-> TRUE, columns |-> Columns, rows |-> t] : t \in Tables}

\* The file is absent, lacks one column, or has a header and no rows.
BadFiles ==
  {[exists |-> FALSE, columns |-> {}, rows |-> <<>>]}
  \cup {[exists |-> TRUE, columns |-> Columns \ {c}, rows |-> t] :
          c \in Columns, t \in Tables}
  \cup {[exists |-> TRUE, columns |-> Columns, rows |-> <<>>]}

(***************************************************************************)
(* Helpers on data frames.                                                 *)
(***************************************************************************)
RECURSIVE SumSeq(_)
SumSeq(s) == IF s = <<>> THEN 0 ELSE Head(s) + SumSeq(Tail(s))

\* df[col] as a sequence of values.
Col(df, col) == [i \in DOMAIN df |-> df[i][col]]

\* df[col].unique().tolist(), as a set.
Unique(df, col) == {df[i][col] : i \in DOMAIN df}

Min(S) == CHOOSE x \in S : \A y \in S : x <= y

Max(S) == CHOOSE x \in S : \A y \in S : x >= y

(***************************************************************************)
(* Data loading (lines 95-113).                                            *)
(***************************************************************************)
\* Variant: the literal is compared in the wrong case.
AttritionNumeric_lowercase(x) == IF x = "yes" THEN 1 ELSE 0

\* lambda x: 1 if x == 'Yes' else 0
AttritionNumeric(x) == IF x = "Yes" THEN 1 ELSE 0

\* One row of df: the row of the file plus the derived column.
WithMirror(r) ==
  [EmployeeID |-> r.EmployeeID, Department |-> r.Department,
   JobRole |-> r.JobRole, City |-> r.City, Gender |-> r.Gender,
   YearsOfExperience |-> r.YearsOfExperience, SalaryINR |-> r.SalaryINR,
   Attrition |-> r.Attrition,
   AttritionNumeric |-> AttritionNumeric(r.Attrition)]

\* The body of load_data: None when the file is not found (the only
\* exception it catches), a KeyError when the file has no Attrition column,
\* else the table with the derived column.
load_data(f) ==
  IF ~f.exists
    THEN [raised |-> FALSE, none |-> TRUE, columns |-> {}, rows |-> <<>>]
  ELSE IF "Attrition" \notin f.columns
    THEN [raised |-> TRUE, none |-> FALSE, columns |-> {}, rows |-> <<>>]
  ELSE [raised |-> FALSE, none |-> FALSE,
        columns |-> f.columns \cup {"AttritionNumeric"},
        rows |-> [i \in DOMAIN f.rows |-> WithMirror(f.rows[i])]]

\* @st.cache_data: a stored return value (None included) is returned without
\* running the body; a call that raises stores nothing.
cache_data(f, c) ==
  IF c # <<>> THEN [result |-> c[1], cache |-> c]
  ELSE LET r == load_data(f)
       IN [result |-> r, cache |-> IF r.raised THEN <<>> ELSE <<r>>]

(***************************************************************************)
(* Sidebar: reset button and session-state defaults (lines 123-158).       *)
(***************************************************************************)
SessionKeys == {"selected_departments", "selected_cities", "selected_exp"}

\* st.session_state before any key is set (the values of absent keys are
\* placeholders that nothing reads).
EmptySession ==
  [keys |-> {}, selected_departments |-> {}, selected_cities |-> {},
   selected_exp |-> <<0, 0>>]

\* int(df['YearsOfExperience'].min()); the column holds integers.
min_exp(df) == Min(Unique(df, "YearsOfExperience"))

\* int(df['YearsOfExperience'].max())
max_exp(df) == Max(Unique(df, "YearsOfExperience"))

\* The value lines 125/132 assign.
DefaultDepartments(df) == Unique(df, "Department")

\* The value lines 126/134 assign.
DefaultCities(df) == Unique(df, "City")

\* Variant: .min() is written for both ends of the range.
DefaultExp_min_twice(df) == <<min_exp(df), min_exp(df)>>

\* The value lines 127/136 assign.
DefaultExp(df) == <<min_exp(df), max_exp(df)>>

\* Lines 124-136 in order. With the button clicked every key is assigned,
\* otherwise only the keys not yet in the session. A column that is not in
\* the table raises KeyError and int(nan) of an empty column raises
\* ValueError; the assignments made before the raise stay in the session.
SidebarState(t, s, clicked) ==
  LET df == t.rows
      need(k) == clicked \/ k \notin s.keys
      ok1 == need("selected_departments") => "Department" \in t.columns
      s1 == IF need("selected_departments") /\ ok1
              THEN [s EXCEPT !.keys = @ \cup {"selected_departments"},
                             !.selected_departments = DefaultDepartments(df)]
              ELSE s
      ok2 == ok1 /\ (need("selected_cities") => "City" \in t.columns)
      s2 == IF ok2 /\ need("selected_cities")
              THEN [s1 EXCEPT !.keys = @ \cup {"selected_cities"},
                              !.selected_cities = DefaultCities(df)]
              ELSE s1
      ok3 == ok2 /\ (need("selected_exp") =>
                       ("YearsOfExperience" \in t.columns /\ df # <<>>))
      s3 == IF ok3 /\ need("selected_exp")
              THEN [s2 EXCEPT !.keys = @ \cup {"selected_exp"},
                              !.selected_exp = DefaultExp(df)]
              ELSE s2
  IN [raised |-> ~ok3, session |-> s3]

(***************************************************************************)
(* Filtered view and key metrics (lines 160-180).                          *)
(***************************************************************************)
\* Variant: the three masks are joined with | instead of &.
filtered_df_union(df, selected_departments, selected_cities, selected_exp) ==
  SelectSeq(df, LAMBDA r :
    \/ r.Department \in selected_departments
    \/ r.City \in selected_cities
    \/ /\ selected_exp[1] <= r.YearsOfExperience
       /\ r.YearsOfExperience <= selected_exp[2])

\* Variant: the experience mask is left out.
filtered_df_partial(df, selected_departments, selected_cities, selected_exp) ==
  SelectSeq(df, LAMBDA r :
    /\ r.Department \in selected_departments
    /\ r.City \in selected_cities)

\* df[isin(selected_departments) & isin(selected_cities) & between(lo, hi)]
filtered_df(df, selected_departments, selected_cities, selected_exp) ==
  SelectSeq(df, LAMBDA r :
    /\ r.Department \in selected_departments
    /\ r.City \in selected_cities
    /\ selected_exp[1] <= r.YearsOfExperience
    /\ r.YearsOfExperience <= selected_exp[2])

\* filtered_df.shape[0]
total_employees(view) == Len(view)

\* filtered_df[filtered_df['Attrition'] == 'Yes'].shape[0]
attrition_count(view) == Len(SelectSeq(view, LAMBDA r : r.Attrition = "Yes"))

\* Variant: the guard's else branch yields 100.
attrition_rate_else_100(view) ==
  IF total_employees(view) > 0
    THEN [num |-> attrition_count(view) * 100, den |-> total_employees(view)]
    ELSE [num |-> 100, den |-> 1]

\* (attrition_count / total_employees) * 100 if total_employees > 0 else 0,
\* as the quotient num/den.
attrition_rate(view) ==
  IF total_employees(view) > 0
    THEN [num |-> attrition_count(view) * 100, den |-> total_employees(view)]
    ELSE [num |-> 0, den |-> 1]

\* filtered_df['SalaryINR'].mean(): NaN for an empty view, else sum/n.
avg_salary(view) ==
  IF view = <<>> THEN [nan |-> TRUE, sum |-> 0, n |-> 0]
  ELSE [nan |-> FALSE, sum |-> SumSeq(Col(view, "SalaryINR")), n |-> Len(view)]

(***************************************************************************)
(* Chart aggregations (lines 192-296) and export (lines 299-315).          *)
(***************************************************************************)
\* Variant: every department of the view is paired with both flags, as a
\* groupby over categoricals with observed=False does.
attrition_dept_zero_filled(view) ==
  {[Department |-> g[1], Attrition |-> g[2],
    count |-> Len(SelectSeq(view, LAMBDA r : /\ r.Department = g[1]
                                             /\ r.Attrition = g[2]))] :
     g \in Unique(view, "Department") \X {"Yes", "No"}}

\* filtered_df.groupby(['Department', 'Attrition']).size().reset_index(
\* name='count'): one record per pair of values that occurs in the view.
attrition_dept(view) ==
  {[Department |-> g[1], Attrition |-> g[2],
    count |-> Len(SelectSeq(view, LAMBDA r : /\ r.Department = g[1]
                                             /\ r.Attrition = g[2]))] :
     g \in {<<view[i].Department, view[i].Attrition>> : i \in DOMAIN view}}

\* Variant: the department mask is left out.
tech_df_unrestricted(view) == view

\* filtered_df[filtered_df['Department'] == 'Technology']
tech_df(view) == SelectSeq(view, LAMBDA r : r.Department = "Technology")

\* tech_df['JobRole'].value_counts().reset_index()
role_counts(tech) ==
  {[JobRole |-> v, count |-> Len(SelectSeq(tech, LAMBDA r : r.JobRole = v))] :
     v \in Unique(tech, "JobRole")}

\* filtered_df['Gender'].value_counts().reset_index()
gender_counts(view) ==
  {[Gender |-> v, count |-> Len(SelectSeq(view, LAMBDA r : r.Gender = v))] :
     v \in Unique(view, "Gender")}

\* The data px.histogram(filtered_df, x='SalaryINR', nbins=30) is handed.
fig_salary(view) == Col(view, "SalaryINR")

\* The points of px.scatter: x, y, color and the two hover columns.
fig_salary_exp(view) ==
  [i \in DOMAIN view |->
     [x |-> view[i].YearsOfExperience, y |-> view[i].SalaryINR,
      color |-> view[i].Department,
      hover |-> <<view[i].JobRole, view[i].City>>]]

\* The columns of filtered_df.select_dtypes(include=np.number).
numerical_cols(columns) ==
  columns \cap {"EmployeeID", "YearsOfExperience", "SalaryINR", "AttritionNumeric"}

\* The default= of the feature multiselect (line 283).
default_cols(columns) ==
  {col \in numerical_cols(columns) : col \notin {"EmployeeID", "AttritionNumeric"}}

\* The value the feature multiselect returns: what the user chose, or the
\* default when the user chose nothing yet.
selected_cols(columns, w) == IF w = <<>> THEN default_cols(columns) ELSE w[1]

\* Pearson's r of two columns as num / sqrt(den2); NaN when a column has no
\* variance (fewer than two rows included).
Pearson(x, y) ==
  LET n == Len(x)
      sx == SumSeq(x)
      sy == SumSeq(y)
      sxx == SumSeq([i \in DOMAIN x |-> x[i] * x[i]])
      syy == SumSeq([i \in DOMAIN y |-> y[i] * y[i]])
      sxy == SumSeq([i \in DOMAIN x |-> x[i] * y[i]])
      den2 == (n * sxx - sx * sx) * (n * syy - sy * sy)
  IN IF den2 = 0 THEN [nan |-> TRUE, num |-> 0, den2 |-> 0]
     ELSE [nan |-> FALSE, num |-> n * sxy - sx * sy, den2 |-> den2]

\* Variant: numerical_cols.corr(), the selection is not applied.
corr_all_numeric(view, cols) ==
  [p \in {"YearsOfExperience", "SalaryINR", "AttritionNumeric"}
           \X {"YearsOfExperience", "SalaryINR", "AttritionNumeric"} |->
     Pearson(Col(view, p[1]), Col(view, p[2]))]

\* numerical_cols[selected_cols].corr()
corr(view, cols) ==
  [p \in cols \X cols |-> Pearson(Col(view, p[1]), Col(view, p[2]))]

\* df.to_csv(index=False): the header line, then one line per row.
convert_df_to_csv(view, columns) ==
  LET header == SelectSeq(ColumnOrder \o <<"AttritionNumeric">>,
                          LAMBDA c : c \in columns)
  IN <<header>> \o
     [i \in DOMAIN view |-> [j \in DOMAIN header |-> view[i][header[j]]]]

(***************************************************************************)
(* One pass of the script.                                                 *)
(***************************************************************************)
\* What a pass leaves behind before it has computed anything. computed names
\* the results the pass produced, rendered the widgets it drew and
\* reset_pressed is the value st.button returned when the pass started; a
\* result that is not in computed holds a placeholder.
NotRun ==
  [status |-> "notrun", computed |-> {}, rendered |-> {},
   reset_pressed |-> FALSE, df |-> <<>>, columns |-> {},
   dept_options |-> {}, city_options |-> {}, min_exp |-> 0, max_exp |-> 0,
   filtered_df |-> <<>>, total_employees |-> 0, attrition_count |-> 0,
   attrition_rate |-> [num |-> 0, den |-> 1],
   avg_salary |-> [nan |-> TRUE, sum |-> 0, n |-> 0],
   attrition_dept |-> {}, tech_df |-> <<>>, role_counts |-> {},
   no_tech_info |-> FALSE, gender_counts |-> {}, fig_salary |-> <<>>,
   fig_salary_exp |-> <<>>, selected_cols |-> {}, corr |-> <<>>,
   corr_warning |-> FALSE, csv |-> <<>>]

\* Lines 138-315 with the session s and the feature-widget state w: the
\* three filter widgets return the session's values, then the view, the
\* metrics, the charts and the export are computed in script order. A column
\* the table lacks raises KeyError (ValueError in px.scatter) where it is
\* first read, and the pass ends there.
Body(t, s, w) ==
  LET df == t.rows
      view == filtered_df(df, s.selected_departments, s.selected_cities,
                          s.selected_exp)
      tech == tech_df(view)
      cols == selected_cols(t.columns, w)
      halt == IF "SalaryINR" \notin t.columns THEN 4
              ELSE IF "JobRole" \notin t.columns /\ tech # <<>> THEN 6
              ELSE IF "Gender" \notin t.columns THEN 7
              ELSE IF "JobRole" \notin t.columns THEN 9
              ELSE 0
      done(k) == halt = 0 \/ halt > k
  IN [status |-> IF halt = 0 THEN "ok" ELSE "raised",
      computed |->
        {"filtered_df", "total_employees", "attrition_count", "attrition_rate"}
        \cup (IF done(4) THEN {"avg_salary"} ELSE {})
        \cup (IF done(5) THEN {"attrition_dept", "tech_df"} ELSE {})
        \cup (IF done(6) /\ tech # <<>> THEN {"role_counts"} ELSE {})
        \cup (IF done(7) THEN {"gender_counts"} ELSE {})
        \cup (IF done(8) THEN {"fig_salary"} ELSE {})
        \cup (IF done(9) THEN {"fig_salary_exp"} ELSE {})
        \cup (IF done(10) /\ cols # {} THEN {"corr"} ELSE {})
        \cup (IF done(11) THEN {"csv"} ELSE {}),
      rendered |->
        {"reset", "filters"}
        \cup (IF done(10) THEN {"features"} ELSE {})
        \cup (IF done(11) THEN {"download"} ELSE {}),
      reset_pressed |-> FALSE, df |-> df, columns |-> t.columns,
      dept_options |-> Unique(df, "Department"),
      city_options |-> Unique(df, "City"),
      min_exp |-> min_exp(df), max_exp |-> max_exp(df),
      filtered_df |-> view,
      total_employees |-> total_employees(view),
      attrition_count |-> attrition_count(view),
      attrition_rate |-> attrition_rate(view),
      avg_salary |-> IF done(4) THEN avg_salary(view) ELSE NotRun.avg_salary,
      attrition_dept |-> IF done(5) THEN attrition_dept(view) ELSE {},
      tech_df |-> IF done(5) THEN tech ELSE <<>>,
      role_counts |-> IF done(6) /\ tech # <<>> THEN role_counts(tech) ELSE {},
      no_tech_info |-> done(5) /\ tech = <<>>,
      gender_counts |-> IF done(7) THEN gender_counts(view) ELSE {},
      fig_salary |-> IF done(8) THEN fig_salary(view) ELSE <<>>,
      fig_salary_exp |-> IF done(9) THEN fig_salary_exp(view) ELSE <<>>,
      selected_cols |-> IF done(10) THEN cols ELSE {},
      corr |-> IF done(10) /\ cols # {} THEN corr(view, cols) ELSE <<>>,
      corr_warning |-> done(10) /\ cols = {},
      csv |-> IF done(11) THEN convert_df_to_csv(view, t.columns) ELSE <<>>]

\* A pass that ended in the sidebar (lines 124-136) with an exception: the
\* table is loaded and the reset button is drawn, nothing else.
RaisedInSidebar(t) ==
  [NotRun EXCEPT !.status = "raised", !.rendered = {"reset"},
                 !.df = t.rows, !.columns = t.columns]

\* The whole script, lines 95-315, from the file f, the cache c, the session
\* s and the feature-widget state w; clicked says whether the pass was
\* started by the reset button. st.experimental_rerun() (line 128) abandons
\* the pass and runs the script again with the button released: the table
\* comes from the cache and lines 131-136 find their keys set.
Script(f, c, s, w, clicked) ==
  LET ld == cache_data(f, c)
      t == ld.result
      sb == SidebarState(t, s, clicked)
      again == SidebarState(t, sb.session, FALSE)
      out == IF t.raised
               THEN [cache |-> ld.cache, session |-> s,
                     run |-> [NotRun EXCEPT !.status = "raised"]]
             ELSE IF t.none
               THEN [cache |-> ld.cache, session |-> s,
                     run |-> [NotRun EXCEPT !.status = "stopped"]]
             ELSE IF sb.raised
               THEN [cache |-> ld.cache, session |-> sb.session,
                     run |-> RaisedInSidebar(t)]
             ELSE IF clicked
               THEN [cache |-> ld.cache, session |-> again.session,
                     run |-> Body(t, again.session, w)]
             ELSE [cache |-> ld.cache, session |-> sb.session,
                   run |-> Body(t, sb.session, w)]
  IN [out EXCEPT !.run.reset_pressed = clicked]

\* The state after a pass.
Pass(s, w, clicked) ==
  \E r \in {Script(file, cache, s, w, clicked)} :
     /\ cache' = r.cache
     /\ session_state' = r.session
     /\ widget_state' = w
     /\ run' = r.run
     /\ UNCHANGED file

(***************************************************************************)
(* The state machine.                                                      *)
(***************************************************************************)
\* Before the first pass: nothing cached, an empty session.
InitWith(files) ==
  /\ file \in files
  /\ cache = <<>>
  /\ session_state = EmptySession
  /\ widget_state = <<>>
  /\ run = NotRun

Init == InitWith(GoodFiles)

InitStartup == InitWith(GoodFiles \cup BadFiles)

\* The browser opens the page: the first pass.
FirstRun ==
  /\ run.status = "notrun"
  /\ Pass(session_state, widget_state, FALSE)

\* The user changes the department multiselect to any subset of its options.
SelectDepartments ==
  /\ "filters" \in run.rendered
  /\ \E sel \in SUBSET run.dept_options :
       Pass([session_state EXCEPT !.selected_departments = sel],
            widget_state, FALSE)

\* The user changes the city multiselect to any subset of its options.
SelectCities ==
  /\ "filters" \in run.rendered
  /\ \E sel \in SUBSET run.city_options :
       Pass([session_state EXCEPT !.selected_cities = sel],
            widget_state, FALSE)

\* The user drags the range slider to any lo <= hi within its bounds.
SelectExperience ==
  /\ "filters" \in run.rendered
  /\ \E lo \in run.min_exp .. run.max_exp :
       \E hi \in lo .. run.max_exp :
         Pass([session_state EXCEPT !.selected_exp = <<lo, hi>>],
              widget_state, FALSE)

\* The user presses "Reset All Filters". The feature multiselect is not
\* drawn in the abandoned pass: its state is kept or dropped, as the
\* Streamlit version has it.
ResetAllFilters ==
  /\ "reset" \in run.rendered
  /\ \E w \in {widget_state, <<>>} : Pass(session_state, w, TRUE)

\* The user changes the feature multiselect to any subset of its options.
SelectFeatures ==
  /\ "features" \in run.rendered
  /\ \E sel \in SUBSET numerical_cols(run.columns) :
       Pass(session_state, <<sel>>, FALSE)

\* The user presses the download button, which starts a pass of its own.
Download ==
  /\ "download" \in run.rendered
  /\ Pass(session_state, widget_state, FALSE)

Next ==
  \/ FirstRun
  \/ SelectDepartments
  \/ SelectCities
  \/ SelectExperience
  \/ ResetAllFilters
  \/ SelectFeatures
  \/ Download

Spec == Init /\ [][Next]_vars

SpecStartup == InitStartup /\ [][Next]_vars

(***************************************************************************)
(* Properties.                                                             *)
(***************************************************************************)
\* v holds rows of t only, each at most once.
IsSubTable(v, t) ==
  /\ \A i \in DOMAIN v : \E j \in DOMAIN t : t[j] = v[i]
  /\ \A i, k \in DOMAIN v : i # k => v[i] # v[k]

\* The rows of v whose years of experience, department and city the current
\* selection admits.
Admitted(r) ==
  /\ r.Department \in session_state.selected_departments
  /\ r.City \in session_state.selected_cities
  /\ session_state.selected_exp[1] <= r.YearsOfExperience
  /\ r.YearsOfExperience <= session_state.selected_exp[2]

RECURSIVE SumCounts(_)
\* The sum of the count fields of a set of groups.
SumCounts(S) ==
  IF S = {} THEN 0
  ELSE LET g == CHOOSE x \in S : TRUE IN g.count + SumCounts(S \ {g})

\* C1: whenever a pass has computed the filtered view, the view is a
\* sub-table of the full table and each of its rows satisfies the department,
\* the city and the experience predicate of the current selection together.
C1_ViewIsConjunction ==
  "filtered_df" \in run.computed =>
    /\ IsSubTable(run.filtered_df, run.df)
    /\ \A i \in DOMAIN run.filtered_df : Admitted(run.filtered_df[i])

\* C1 witness: a non-empty view that leaves out a row of the table whose
\* department is selected and whose city is not.
C1_Witness ==
  /\ "filtered_df" \in run.computed
  /\ run.filtered_df # <<>>
  /\ \E j \in DOMAIN run.df :
       /\ run.df[j].Department \in session_state.selected_departments
       /\ run.df[j].City \notin session_state.selected_cities
       /\ \A i \in DOMAIN run.filtered_df : run.filtered_df[i] # run.df[j]

\* C2: a pass started by "Reset All Filters" completes with the department
\* and city selections equal to all values of the full table, the range
\* equal to [min, max] of the full table, and a filtered view that holds
\* every row of the full table.
C2_ResetYieldsFullTable ==
  run.reset_pressed =>
    /\ run.status = "ok"
    /\ session_state.keys = SessionKeys
    /\ session_state.selected_departments =
         {file.rows[i].Department : i \in DOMAIN file.rows}
    /\ session_state.selected_cities =
         {file.rows[i].City : i \in DOMAIN file.rows}
    /\ \A i \in DOMAIN file.rows :
         /\ session_state.selected_exp[1] <= file.rows[i].YearsOfExperience
         /\ file.rows[i].YearsOfExperience <= session_state.selected_exp[2]
    /\ \E i, j \in DOMAIN file.rows :
         session_state.selected_exp =
           <<file.rows[i].YearsOfExperience, file.rows[j].YearsOfExperience>>
    /\ Len(run.df) = Len(file.rows)
    /\ run.filtered_df = run.df

\* C2 witness: a reset pass over a table with two departments, two cities
\* and two different years of experience.
C2_Witness ==
  /\ run.reset_pressed
  /\ Cardinality(session_state.selected_departments) = 2
  /\ Cardinality(session_state.selected_cities) = 2
  /\ session_state.selected_exp[1] < session_state.selected_exp[2]
  /\ Len(run.filtered_df) >= 2

\* C3 as stated: the attrition rate is in [0, 100] and is 0 if and only if
\* the filtered view has no rows.
C3_RateZeroIffEmpty ==
  "attrition_rate" \in run.computed =>
    /\ 0 <= run.attrition_rate.num
    /\ run.attrition_rate.num <= 100 * run.attrition_rate.den
    /\ (run.attrition_rate.num = 0) <=> (Len(run.filtered_df) = 0)

\* C3 amended: the attrition rate is in [0, 100] and is 0 if and only if the
\* filtered view has no row whose attrition flag is "Yes", which includes
\* the view with no rows.
C3_RateZeroIffNoAttrition ==
  "attrition_rate" \in run.computed =>
    /\ run.attrition_rate.den > 0
    /\ 0 <= run.attrition_rate.num
    /\ run.attrition_rate.num <= 100 * run.attrition_rate.den
    /\ (run.attrition_rate.num = 0) <=>
         (\A i \in DOMAIN run.filtered_df : run.filtered_df[i].Attrition # "Yes")
    /\ Len(run.filtered_df) = 0 => run.attrition_rate.num = 0

\* C3 witness: a view with rows, none of them with attrition, and rate 0.
C3_Witness ==
  /\ "attrition_rate" \in run.computed
  /\ Len(run.filtered_df) > 0
  /\ run.attrition_rate.num = 0

\* C4: the counts of the attrition-by-department groups add up to the total
\* count of the filtered view, every group has at least one row, and no
\* pair (department, flag) has two groups.
C4_GroupCountsSumToTotal ==
  "attrition_dept" \in run.computed =>
    /\ SumCounts(run.attrition_dept) = run.total_employees
    /\ run.total_employees = Len(run.filtered_df)
    /\ \A g \in run.attrition_dept : g.count > 0
    /\ \A g, h \in run.attrition_dept :
         (g.Department = h.Department /\ g.Attrition = h.Attrition) => g = h

\* C4 witness: a view with two groups in which some department occurs with
\* one flag only, so that a zero-filled result would hold a group of 0.
C4_Witness ==
  /\ "attrition_dept" \in run.computed
  /\ Cardinality(run.attrition_dept) >= 2
  /\ \E g \in run.attrition_dept :
       \A h \in run.attrition_dept : h.Department = g.Department => h = g

\* The load fails in the sense of C5: no file, or a required column missing.
LoadFails == ~file.exists \/ file.columns # Columns

\* C5: when the load fails, every pass stops or raises with no filter
\* selection in the session and no view, metric, chart or export computed.
C5_LoadFailureHaltsStartup ==
  (LoadFails /\ run.status # "notrun") =>
    /\ run.status \in {"stopped", "raised"}
    /\ session_state.keys = {}
    /\ run.computed = {}

\* C6: after every completed pass the filtered view is exactly the rows of
\* the full table, in table order, that the current session's department,
\* city and experience selections admit.
C6_ViewIsFreshAndComplete ==
  run.status = "ok" =>
    /\ Len(run.df) = Len(file.rows)
    /\ run.filtered_df = SelectSeq(run.df, Admitted)

\* C6 witness: all three selections differ from their defaults and the view
\* has rows.
C6_Witness ==
  /\ run.status = "ok"
  /\ session_state.selected_departments # run.dept_options
  /\ session_state.selected_cities # run.city_options
  /\ session_state.selected_exp # <<run.min_exp, run.max_exp>>
  /\ run.filtered_df # <<>>

\* C7: a pass whose filtered view is empty completes with total count 0,
\* attrition rate 0, an undefined average salary, and for every chart either
\* an empty result or the explicit "no data" or warning signal.
C7_EmptyViewIsTolerated ==
  ("filtered_df" \in run.computed /\ run.filtered_df = <<>>) =>
    /\ run.status = "ok"
    /\ run.total_employees = 0
    /\ run.attrition_rate.num = 0
    /\ run.avg_salary.nan
    /\ run.attrition_dept = {}
    /\ run.no_tech_info /\ "role_counts" \notin run.computed
    /\ run.gender_counts = {}
    /\ run.fig_salary = <<>>
    /\ run.fig_salary_exp = <<>>
    /\ run.corr_warning \/ DOMAIN run.corr = {}

\* C8: in a completed pass an empty feature selection gives the warning and
\* no matrix; a non-empty one gives no warning and a matrix whose entries
\* are the correlations of exactly the selected columns of the filtered
\* view; an untouched selection is all numeric columns except EmployeeID and
\* AttritionNumeric.
C8_CorrelationStep ==
  run.status = "ok" =>
    /\ run.selected_cols = {} =>
         (run.corr_warning /\ "corr" \notin run.computed)
    /\ run.selected_cols # {} =>
         /\ ~run.corr_warning
         /\ "corr" \in run.computed
         /\ DOMAIN run.corr = run.selected_cols \X run.selected_cols
         /\ \A p \in DOMAIN run.corr :
              run.corr[p] = Pearson(Col(run.filtered_df, p[1]),
                                    Col(run.filtered_df, p[2]))
    /\ widget_state = <<>> =>
         run.selected_cols = {"YearsOfExperience", "SalaryINR"}
    /\ widget_state # <<>> => run.selected_cols = widget_state[1]

\* C8 witness: the user emptied the feature selection and the warning shows.
C8_Witness ==
  /\ run.status = "ok"
  /\ widget_state = <<{}>>
  /\ run.corr_warning
  /\ run.filtered_df # <<>>

\* C9: the role distribution is taken over exactly the Technology rows of
\* the filtered view: its counts add up to their number, and when there is
\* none (as whenever Technology is not selected) "no data" is reported and
\* no role chart is produced.
C9_RolesOverTechnologyRowsOfView ==
  "tech_df" \in run.computed =>
    LET n == Cardinality({i \in DOMAIN run.filtered_df :
                            run.filtered_df[i].Department = "Technology"})
    IN /\ Len(run.tech_df) = n
       /\ IsSubTable(run.tech_df, run.filtered_df)
       /\ \A i \in DOMAIN run.tech_df : run.tech_df[i].Department = "Technology"
       /\ n > 0 => /\ "role_counts" \in run.computed
                   /\ ~run.no_tech_info
                   /\ SumCounts(run.role_counts) = n
                   /\ \A g \in run.role_counts :
                        g.count = Cardinality({i \in DOMAIN run.tech_df :
                                    run.tech_df[i].JobRole = g.JobRole})
       /\ n = 0 => /\ run.no_tech_info
                   /\ "role_counts" \notin run.computed
                   /\ run.role_counts = {}
       /\ "Technology" \notin session_state.selected_departments => n = 0

\* C9 witness: the table has Technology rows, Technology is not selected,
\* the view has rows and "no data" is reported.
C9_Witness ==
  /\ "tech_df" \in run.computed
  /\ \E j \in DOMAIN run.df : run.df[j].Department = "Technology"
  /\ "Technology" \notin session_state.selected_departments
  /\ run.filtered_df # <<>>
  /\ run.no_tech_info

\* C10: after every pass that got past loading, the table is the file's
\* rows with AttritionNumeric 1 exactly on the "Yes" rows, the cache holds
\* that table, and the offered departments, cities and experience bounds are
\* those of the whole table, whatever is selected.
C10_FullTableIsNeverChanged ==
  run.status = "ok" =>
    /\ DOMAIN run.df = DOMAIN file.rows
    /\ \A i \in DOMAIN run.df :
         /\ \A c \in Columns : run.df[i][c] = file.rows[i][c]
         /\ run.df[i].AttritionNumeric = 1 <=> file.rows[i].Attrition = "Yes"
         /\ run.df[i].AttritionNumeric = 0 <=> file.rows[i].Attrition # "Yes"
    /\ cache # <<>> /\ cache[1].rows = run.df
    /\ run.dept_options = {file.rows[i].Department : i \in DOMAIN file.rows}
    /\ run.city_options = {file.rows[i].City : i \in DOMAIN file.rows}
    /\ \A i \in DOMAIN file.rows :
         /\ run.min_exp <= file.rows[i].YearsOfExperience
         /\ file.rows[i].YearsOfExperience <= run.max_exp
    /\ \E i, j \in DOMAIN file.rows :
         /\ run.min_exp = file.rows[i].YearsOfExperience
         /\ run.max_exp = file.rows[j].YearsOfExperience

\* C10 witness: a pass after the selection was narrowed on every filter,
\* over a table with attrition on some rows and not on others.
C10_Witness ==
  /\ run.status = "ok"
  /\ session_state.selected_departments # run.dept_options
  /\ session_state.selected_cities # run.city_options
  /\ session_state.selected_exp # <<run.min_exp, run.max_exp>>
  /\ Len(run.filtered_df) < Len(run.df)
  /\ \E i, j \in DOMAIN run.df :
       run.df[i].AttritionNumeric = 1 /\ run.df[j].AttritionNumeric = 0

====
